---- MODULE Spec2Model ----
(***************************************************************************)
(* Model of the discord gateway client (package discordbot): Connect, the  *)
(* heartbeat goroutine, the receive loop with its listener goroutines,     *)
(* SendPayload/SendControl under connMutex, and Identify.                  *)
(*                                                                         *)
(* One gateway object.  Every goroutine is a process of the model; a step  *)
(* runs from one blocking point (mutex, channel, socket read, timer) to    *)
(* the next.  log.Fatal ends the whole process: after it no action is      *)
(* enabled.  Under Spec the owner calls Connect once; under SpecReconnect  *)
(* it may call Connect again, and the goroutines the later call starts are *)
(* counted while the steps followed remain those of the first call's.      *)
(***************************************************************************)
EXTENDS Integers, Sequences, FiniteSets, Bags, TLC

\* ------------------------------------------------------------------ bounds
\* The owner of the gateway and the server follow one of six plans, chosen in
\* Init; each plan bounds what the owner calls and what the server sends.
HandshakeFrames == 1
HandshakeBeats == 1
HeartbeatFrames == 2
HeartbeatBeats == 2
RouterFrames == 2
RouterRegs == 2
IdentifyFrames == 2
ReidentifyFrames == 1
ReidentifyCalls == 2
WriterFrames == 1
WriterBeats == 1
WriterSends == 1
ReconnectFrames == 1
ReconnectConnects == 2

\* ------------------------------------------------------- program constants
OpcodeDispatch == 0
OpcodeHeartbeat == 1
OpcodeIdentify == 2
OpcodeStatusUpdate == 3
OpcodeHello == 10
OpcodeHeartbeatACK == 11
CloseSessionTimeout == 4009
CloseMessage == 8

EventReady == "READY"
EventGuildCreate == "GUILD_CREATE"

\* a nil *int (sequenceNumber before any dispatch frame, sessionId before Ready)
NilSeq == 0
NilSession == 0

\* ------------------------------------------- int64 arithmetic (time.Duration)
\* An int64 is four 16-bit limbs, least significant first, two's complement.
LimbBase == 2 ^ 16
SignLimb == 2 ^ 15

Zero64 == <<0, 0, 0, 0>>

\* x * m + a, wrapped to 64 bits as Go's int64 multiplication wraps (m, a < 2^15)
MulAdd64(x, m, a) ==
    LET p0 == x[1] * m + a
        p1 == x[2] * m + (p0 \div LimbBase)
        p2 == x[3] * m + (p1 \div LimbBase)
        p3 == x[4] * m + (p2 \div LimbBase)
    IN  <<p0 % LimbBase, p1 % LimbBase, p2 % LimbBase, p3 % LimbBase>>

\* -x in two's complement
Neg64(x) ==
    LET n0 == (LimbBase - 1 - x[1]) + 1
        n1 == (LimbBase - 1 - x[2]) + (n0 \div LimbBase)
        n2 == (LimbBase - 1 - x[3]) + (n1 \div LimbBase)
        n3 == (LimbBase - 1 - x[4]) + (n2 \div LimbBase)
    IN  <<n0 % LimbBase, n1 % LimbBase, n2 % LimbBase, n3 % LimbBase>>

IsNeg64(x) == x[4] >= SignLimb
LeqZero64(x) == IsNeg64(x) \/ x = Zero64

\* the decimal digits of a JSON number, most significant first, as an int64
RECURSIVE Digits64(_)
Digits64(ds) ==
    IF ds = <<>> THEN Zero64
    ELSE MulAdd64(Digits64(SubSeq(ds, 1, Len(ds) - 1)), 10, ds[Len(ds)])

\* json.Unmarshal of heartbeat_interval into gatewayHelloResponse.HeartbeatInterval
\* (an int): a JSON number is [neg, digits]; anything else fails to decode.
ParseInterval(d) ==
    IF d.neg THEN Neg64(Digits64(d.digits)) ELSE Digits64(d.digits)

\* time.Duration(n) * time.Millisecond: Millisecond = 1000 * Microsecond,
\* Microsecond = 1000 * Nanosecond, int64 arithmetic that wraps
ToDuration(n) == MulAdd64(MulAdd64(n, 1000, 0), 1000, 0)

\* --------------------------------------------------------------- hello inputs
Num(neg, digits) == [kind |-> "number", neg |-> neg, digits |-> digits]
Garbage == [kind |-> "garbage", neg |-> FALSE, digits |-> <<>>]

\* heartbeat_interval values a hello frame may carry
HelloIntervals ==
    { Num(FALSE, <<4, 5, 0, 0, 0>>),
      Num(FALSE, <<0>>),
      Num(TRUE, <<1>>),
      Num(TRUE, <<9, 2, 2, 3, 3, 7, 2, 0, 3, 6, 8, 5, 5>>),
      Num(FALSE, <<9, 2, 2, 3, 3, 7, 2, 0, 3, 6, 8, 5, 5>>),
      Garbage }

HelloOpcodes == {OpcodeHello, OpcodeDispatch, OpcodeHeartbeat, OpcodeHeartbeatACK}

\* ----------------------------------------------------------------------- plans
AllKinds == {"ack", "heartbeat", "guildCreate", "ready", "badReady"}

Plans ==
    { [name |-> "handshake", anyHello |-> TRUE, kinds |-> AllKinds,
       frames |-> HandshakeFrames, beats |-> HandshakeBeats,
       identifies |-> 0, regs |-> 0, sends |-> 0, connects |-> 1],
      [name |-> "heartbeat", anyHello |-> FALSE,
       kinds |-> {"ack", "heartbeat", "guildCreate"},
       frames |-> HeartbeatFrames, beats |-> HeartbeatBeats,
       identifies |-> 0, regs |-> 0, sends |-> 0, connects |-> 1],
      [name |-> "router", anyHello |-> FALSE,
       kinds |-> {"ack", "ready"},
       frames |-> RouterFrames, beats |-> 0,
       identifies |-> 0, regs |-> RouterRegs, sends |-> 0, connects |-> 1],
      [name |-> "identify", anyHello |-> FALSE,
       kinds |-> {"ready", "badReady"},
       frames |-> IdentifyFrames, beats |-> 0,
       identifies |-> 1, regs |-> 0, sends |-> 0, connects |-> 1],
      [name |-> "reidentify", anyHello |-> FALSE,
       kinds |-> {"ready"},
       frames |-> ReidentifyFrames, beats |-> 0,
       identifies |-> ReidentifyCalls, regs |-> 0, sends |-> 0, connects |-> 1],
      [name |-> "writers", anyHello |-> FALSE,
       kinds |-> {"ack", "heartbeat"},
       frames |-> WriterFrames, beats |-> WriterBeats,
       identifies |-> 1, regs |-> 0, sends |-> WriterSends, connects |-> 1] }

\* the owner calls Connect again on the gateway object it is already connected with
ReconnectPlan ==
    [name |-> "reconnect", anyHello |-> FALSE,
     kinds |-> {"ack", "guildCreate"},
     frames |-> ReconnectFrames, beats |-> 0,
     identifies |-> 0, regs |-> 0, sends |-> 0, connects |-> ReconnectConnects]

MaxIdentify == IF ReidentifyCalls > 1 THEN ReidentifyCalls ELSE 1


\* -------------------------------------------------------------------- state
VARIABLES
    plan,             \* what the owner and the server will do (never changes)
    fatal,            \* "none", or why log.Fatal ended the process
    connState,        \* "new", "connected" (Connect returned nil), "failed"
    connErr,          \* the error Connect returned
    hello,            \* the first frame Connect read
    hbInterval,       \* discordHeartbeat.interval, an int64 of nanoseconds
    connects,         \* Connect calls made on the gateway object
    heartbeats,       \* heartbeat goroutines started by startHeartbeat
    loops,            \* receive-loop goroutines started by Connect
    opcodeListeners,  \* DiscordGateway.opcodeListeners
    eventListeners,   \* DiscordGateway.eventListeners
    regs,             \* the caller's registrations, in order, with the number of
                      \* frames read before each
    loopPc,           \* the receive loop: "off", "running", "failed" (a read failed)
    frames,           \* every frame the receive loop has read, in arrival order
    tasks,            \* the package's listener goroutines started and not yet finished
    calls,            \* bag of [l, f]: `go listener(payload)` executed for frame f
    panics,           \* the [l, f] whose listener call panicked
    stored,           \* frames whose sequence number a dispatch listener has stored
    dispatched,       \* frames whose dispatch opcode listener has run to its end
    sequenceNumber,   \* DiscordGateway.sequenceNumber
    hbPc,             \* where the heartbeat goroutine is
    hbMsgSeq,         \* heartbeatMessage.SequenceNumber
    beats,            \* heartbeats written
    lastHeartbeat,    \* line 71, lastHeartbeat: when the last heartbeat was written,
                      \* as the number of frames the receive loop had read by then
    acks,             \* per receive of the heartbeat goroutine's select from the ack
                      \* channel: whether the ack frame whose heartbeatAckRecv
                      \* goroutine sent was read after lastHeartbeat
    hbReads,          \* every getSequenceNum() result with the highest sequence
                      \* number a dispatch listener had stored by then
    connMutex,        \* holder of DiscordGateway.connMutex
    wire,             \* what has been written to the socket, in order
    idCalls,          \* Identify calls started
    idPc,             \* where the running Identify call is
    idErr,            \* per call: its named result err (shared with its listener)
    readyMessage,     \* per call: its readyMessage (shared with its listener)
    idUser,           \* per call: its named result user
    idBranch,         \* per call: the exit path taken
    idGot,            \* per call: the frame whose listener it received from
    idRet,            \* per call: what it returned, and *g.sessionId at that moment
    sessionId,        \* DiscordGateway.sessionId: the call whose readyMessage it
                      \* points into, or NilSession
    csPc,             \* where the caller's own SendPayload is
    csCount           \* caller sends finished

connVars == <<connState, connErr, hello, hbInterval, connects, heartbeats, loops>>
regVars == <<opcodeListeners, eventListeners, regs>>
loopVars == <<loopPc, frames, tasks, calls, panics, stored, dispatched, sequenceNumber>>
hbVars == <<hbPc, hbMsgSeq, beats, lastHeartbeat, acks, hbReads>>
sockVars == <<connMutex, wire>>
idVars == <<idCalls, idPc, idErr, readyMessage, idUser, idBranch, idGot, idRet, sessionId>>
csVars == <<csPc, csCount>>

vars == <<plan, fatal, connVars, regVars, loopVars, hbVars, sockVars, idVars, csVars>>

\* ------------------------------------------------------------------ listeners
HeartbeatAckRecv == [kind |-> "heartbeatAckRecv", n |-> 0]
HeartbeatRecv == [kind |-> "heartbeatRecv", n |-> 0]
DispatchListener == [kind |-> "dispatch", n |-> 0]
ReadyListener(k) == [kind |-> "ready", n |-> k]
UserListener(n) == [kind |-> "user", n |-> n]

\* the built-in listeners registered by Connect call number c + 1: the method
\* values of that call's discordHeartbeat and that call's dispatch closure
BuiltinListener(l, c) == [l EXCEPT !.n = c]

ListenOpcodes == {OpcodeDispatch, OpcodeHeartbeat, OpcodeHeartbeatACK}
Events == {EventReady, EventGuildCreate}

\* what the caller registers listeners on
UserOpcodes == {OpcodeHeartbeatACK}
UserEvents == {EventReady, EventGuildCreate}

\* ---------------------------------------------------------------------- frames
NoData == [valid |-> FALSE, user |-> 0, session_id |-> 0]
NoFrame == [op |-> -1, d |-> Garbage]

DispatchCount == Cardinality({i \in DOMAIN frames : frames[i].op = OpcodeDispatch})

\* The frames the server may send next.  Dispatch frames carry strictly
\* increasing sequence numbers; a Ready payload either decodes into
\* gatewayReadyResponse or does not.
FrameOf(kind) ==
    LET i == Len(frames) + 1
        s == DispatchCount + 1
    IN  CASE kind = "ack" -> [op |-> OpcodeHeartbeatACK, t |-> "", s |-> NilSeq, d |-> NoData]
          [] kind = "heartbeat" -> [op |-> OpcodeHeartbeat, t |-> "", s |-> NilSeq, d |-> NoData]
          [] kind = "guildCreate" ->
                [op |-> OpcodeDispatch, t |-> EventGuildCreate, s |-> s, d |-> NoData]
          [] kind = "ready" ->
                [op |-> OpcodeDispatch, t |-> EventReady, s |-> s,
                 d |-> [valid |-> TRUE, user |-> i, session_id |-> i]]
          [] kind = "badReady" ->
                [op |-> OpcodeDispatch, t |-> EventReady, s |-> s, d |-> NoData]

NextFrames == {FrameOf(kind) : kind \in plan.kinds}

\* ----------------------------------------------------------------------- mutex
Free == <<"free", 0>>
Monitor == <<"heartbeat", 0>>
Identifier == <<"identify", 0>>
Caller == <<"caller", 0>>
Replier(f) == <<"heartbeatRecv", f>>

\* g.connMutex.Lock() by the mutant: no mutual exclusion
LockNoWait(who) == connMutex' = who

\* g.connMutex.Lock(): blocks until the mutex is free
Lock(who) == connMutex = Free /\ connMutex' = who

\* g.connMutex.Unlock()
Unlock == connMutex' = Free

\* a mutant: a failed write returns its error before the Unlock
UnlockOnSuccess(ok) == connMutex' = IF ok THEN Free ELSE connMutex

\* SendPayload lines 93-100 and SendControl lines 108-110: after the write,
\* whatever its result, Unlock
UnlockAfterWrite(ok) == Unlock

\* the goroutines inside conn.WriteJSON / conn.WriteControl
Writers ==
    (IF hbPc \in {"writing", "closing"} THEN {Monitor} ELSE {})
    \cup (IF idPc = "writing" THEN {Identifier} ELSE {})
    \cup (IF csPc = "writing" THEN {Caller} ELSE {})
    \cup {Replier(t.f) : t \in {u \in tasks : u.pc = "writing"}}

Payload(op, s) == [kind |-> "payload", op |-> op, s |-> s, code |-> 0]
Control(type, code) == [kind |-> "control", op |-> type, s |-> NilSeq, code |-> code]

\* conn.WriteJSON / conn.WriteControl: the frame reaches the socket or the write fails
Written(ok, fr) == wire' = IF ok THEN Append(wire, fr) ELSE wire

\* a mutant: log.Fatal replaced by a call that only logs
AliveAfterFatal == TRUE

\* the process is running: no goroutine has called log.Fatal
Alive == fatal = "none"


\* ------------------------------------------------------------------------ Init
IdCalls == 1 .. MaxIdentify

\* a gateway object on which nothing has been called yet
Fresh ==
    /\ fatal = "none"
    /\ connState = "new"
    /\ connErr = "nil"
    /\ hello = NoFrame
    /\ hbInterval = Zero64
    /\ connects = 0
    /\ heartbeats = 0
    /\ loops = 0
    /\ opcodeListeners = [o \in ListenOpcodes |-> <<>>]
    /\ eventListeners = [e \in Events |-> <<>>]
    /\ regs = <<>>
    /\ loopPc = "off"
    /\ frames = <<>>
    /\ tasks = {}
    /\ calls = EmptyBag
    /\ panics = {}
    /\ stored = {}
    /\ dispatched = {}
    /\ sequenceNumber = NilSeq
    /\ hbPc = "off"
    /\ hbMsgSeq = NilSeq
    /\ beats = 0
    /\ lastHeartbeat = 0
    /\ acks = <<>>
    /\ hbReads = <<>>
    /\ connMutex = Free
    /\ wire = <<>>
    /\ idCalls = 0
    /\ idPc = "idle"
    /\ idErr = [k \in IdCalls |-> "nil"]
    /\ readyMessage = [k \in IdCalls |-> [User |-> 0, SessionId |-> 0]]
    /\ idUser = [k \in IdCalls |-> 0]
    /\ idBranch = [k \in IdCalls |-> "none"]
    /\ idGot = [k \in IdCalls |-> 0]
    /\ idRet = [k \in IdCalls |-> [returned |-> FALSE, user |-> 0, err |-> "nil", session |-> NilSession]]
    /\ sessionId = NilSession
    /\ csPc = "idle"
    /\ csCount = 0

Init == plan \in Plans /\ Fresh

InitReconnect == plan \in Plans \cup {ReconnectPlan} /\ Fresh

\* ---------------------------------------------------------------- registration
\* RegisterOpcodeListener(opcode, listener), called by the owner of the gateway
RegisterOpcodeListener ==
    /\ Alive
    /\ connState # "failed"
    /\ Len(regs) < plan.regs
    /\ \E o \in UserOpcodes :
        /\ opcodeListeners' = [opcodeListeners EXCEPT
                                 ![o] = Append(@, UserListener(Len(regs) + 1))]
        /\ regs' = Append(regs, [op |-> o, ev |-> "", at |-> Len(frames)])
    /\ UNCHANGED <<plan, fatal, connVars, eventListeners, loopVars, hbVars, sockVars,
                   idVars, csVars>>

\* RegisterEventListener(event, listener), called by the owner of the gateway
RegisterEventListener ==
    /\ Alive
    /\ connState # "failed"
    /\ Len(regs) < plan.regs
    /\ \E e \in UserEvents :
        /\ eventListeners' = [eventListeners EXCEPT
                                ![e] = Append(@, UserListener(Len(regs) + 1))]
        /\ regs' = Append(regs, [op |-> -1, ev |-> e, at |-> Len(frames)])
    /\ UNCHANGED <<plan, fatal, connVars, opcodeListeners, loopVars, hbVars, sockVars,
                   idVars, csVars>>

\* --------------------------------------------------------------------- Connect
\* the hello frame of a healthy server
StandardHello == [op |-> OpcodeHello, d |-> Num(FALSE, <<4, 5, 0, 0, 0>>)]

\* Connect with the hello opcode check left out (a mutant)
ConnectErrorAnyOpcode(dialOk, readOk, fr) ==
    IF ~dialOk THEN "DialFailure"
    ELSE IF ~readOk THEN "ReadHello"
    ELSE IF fr.d.kind # "number" THEN "HelloDecode"
    ELSE IF LeqZero64(ToDuration(ParseInterval(fr.d))) THEN "InvalidLivenessInterval"
    ELSE "nil"

\* The error Connect returns, from its checks in order: dial, read of the first
\* frame, its opcode, the decode of its payload, the interval.
ConnectError(dialOk, readOk, fr) ==
    IF ~dialOk THEN "DialFailure"
    ELSE IF ~readOk THEN "ReadHello"
    ELSE IF fr.op # OpcodeHello THEN "HandshakeProtocolViolation"
    ELSE IF fr.d.kind # "number" THEN "HelloDecode"
    ELSE IF LeqZero64(ToDuration(ParseInterval(fr.d))) THEN "InvalidLivenessInterval"
    ELSE "nil"

\* Connect: dial, read the first frame, check it; on success start the
\* heartbeat goroutine, register the three built-in opcode listeners and start
\* the receive loop.
Connect ==
    /\ Alive
    /\ connects < plan.connects
    /\ \E dialOk \in BOOLEAN, readOk \in BOOLEAN, op \in HelloOpcodes, d \in HelloIntervals :
        LET fr == [op |-> op, d |-> d]
            err == ConnectError(dialOk, readOk, fr)
        IN  /\ (~dialOk => ~readOk)
            /\ plan.anyHello \/ (dialOk /\ readOk /\ fr = StandardHello)
            /\ hello' = IF dialOk /\ readOk THEN fr ELSE NoFrame
            /\ connErr' = err
            /\ connects' = connects + 1
            /\ connMutex' = Free
            /\ IF err = "nil"
               THEN /\ connState' = "connected"
                    /\ hbInterval' = ToDuration(ParseInterval(d))
                    /\ heartbeats' = heartbeats + 1
                    /\ hbPc' = IF hbPc = "off" THEN "start" ELSE hbPc
                    /\ loops' = loops + 1
                    /\ loopPc' = IF loopPc = "off" THEN "running" ELSE loopPc
                    /\ opcodeListeners' =
                         [opcodeListeners EXCEPT
                            ![OpcodeHeartbeatACK] =
                                Append(@, BuiltinListener(HeartbeatAckRecv, connects)),
                            ![OpcodeHeartbeat] =
                                Append(@, BuiltinListener(HeartbeatRecv, connects)),
                            ![OpcodeDispatch] =
                                Append(@, BuiltinListener(DispatchListener, connects))]
               ELSE /\ connState' = "failed"
                    /\ UNCHANGED <<hbInterval, heartbeats, hbPc, loops, loopPc,
                                   opcodeListeners>>
    /\ UNCHANGED <<plan, fatal, eventListeners, regs, frames, tasks, calls, panics, stored,
                   dispatched,
                   sequenceNumber, hbMsgSeq, beats, lastHeartbeat, acks, hbReads,
                   wire, idVars, csVars>>


\* ---------------------------------------------------------------- receive loop
\* `go listener(payload)` for every listener of ls, for frame number f.  The
\* goroutines of the package's own listeners are followed step by step; what a
\* listener of the owner does is the owner's code, and its start is counted
\* in calls only.
Started(ls, f) ==
    {[l |-> ls[j], f |-> f, pc |-> "run", v |-> "nil"] :
        j \in {i \in DOMAIN ls : ls[i].kind # "user"}}

CallsOf(ls, f) ==
    LET es == {[l |-> ls[j], f |-> f] : j \in DOMAIN ls}
    IN  [e \in es |-> Cardinality({j \in DOMAIN ls : ls[j] = e.l})]

\* a mutant: the loop starts every registered opcode listener, whatever the opcode
OpcodeFanoutAll(fr) ==
    opcodeListeners[OpcodeDispatch] \o opcodeListeners[OpcodeHeartbeat]
        \o opcodeListeners[OpcodeHeartbeatACK]

\* the listeners the receive loop starts for a frame: g.opcodeListeners[payload.Opcode]
OpcodeFanout(fr) == opcodeListeners[fr.op]

\* a mutant: the dispatch listener starts the listeners of every event name
EventFanoutAll(fr) == eventListeners[EventReady] \o eventListeners[EventGuildCreate]

\* the listeners the dispatch listener starts: g.eventListeners[payload.EventName]
EventFanout(fr) == eventListeners[fr.t]

\* One iteration of the receive loop: ReadJSON fails and log.Fatal ends the
\* process, or a frame is read and a goroutine is started per opcode listener.
ReceiveLoop ==
    /\ Alive
    /\ loopPc = "running"
    /\ \E ok \in BOOLEAN :
        IF ok
        THEN /\ Len(frames) < plan.frames
             /\ \E fr \in NextFrames :
                 LET f == Len(frames) + 1
                     ls == OpcodeFanout(fr)
                 IN  /\ frames' = Append(frames, fr)
                     /\ tasks' = tasks \cup Started(ls, f)
                     /\ calls' = calls (+) CallsOf(ls, f)
             /\ UNCHANGED <<fatal, loopPc>>
        ELSE /\ fatal' = "ReadFailure"
             /\ loopPc' = "failed"
             /\ UNCHANGED <<frames, tasks, calls>>
    /\ UNCHANGED <<plan, connVars, regVars, panics, stored, dispatched, sequenceNumber,
                   hbVars, sockVars, idVars, csVars>>

\* ---------------------------------------------------------- listener goroutines
\* The dispatch opcode listener, line 197: store the frame's sequence number
RunDispatchStore ==
    /\ Alive
    /\ \E t \in tasks :
        /\ t.l.kind = "dispatch"
        /\ t.pc = "run"
        /\ sequenceNumber' = frames[t.f].s
        /\ stored' = stored \cup {t.f}
        /\ tasks' = (tasks \ {t}) \cup {[t EXCEPT !.pc = "stored"]}
    /\ UNCHANGED <<plan, fatal, connVars, regVars, loopPc, frames, calls, panics, dispatched,
                   hbVars, sockVars, idVars, csVars>>

\* a mutant: the listeners are started without waiting for the store
StoredFirstSkipped(t) == TRUE

\* the statements of the dispatch listener run in program order: the loop of
\* line 200 is reached after the store of line 197
StoredFirst(t) == t.pc = "stored"

\* The dispatch opcode listener, lines 198-203: start a goroutine per listener
\* of the frame's event name
RunDispatch ==
    /\ Alive
    /\ \E t \in tasks :
        /\ t.l.kind = "dispatch"
        /\ StoredFirst(t)
        /\ LET fr == frames[t.f]
               ls == EventFanout(fr)
           IN  /\ dispatched' = dispatched \cup {t.f}
               /\ tasks' = (tasks \ {t}) \cup Started(ls, t.f)
               /\ calls' = calls (+) CallsOf(ls, t.f)
    /\ UNCHANGED <<plan, fatal, connVars, regVars, loopPc, frames, panics, stored,
                   sequenceNumber, hbVars, sockVars, idVars, csVars>>

\* A listener of the owner panics in its goroutine (the listener of
\* TestConnectAndIdentify dereferences a nil Channels when the payload has
\* none).  `go listener(payload)` has no recover,
\* and an unrecovered panic in any goroutine ends the process.
UserListenerPanic ==
    /\ Alive
    /\ \E e \in BagToSet(calls) :
        /\ e.l.kind = "user"
        /\ panics = {}
        /\ panics' = {e}
    /\ fatal' = "ListenerPanic"
    /\ UNCHANGED <<plan, connVars, regVars, loopPc, frames, tasks, calls, stored, dispatched,
                   sequenceNumber, hbVars, sockVars, idVars, csVars>>

\* heartbeatRecv: SendPayload of a heartbeat-ack, first taking the mutex
HeartbeatRecvLock ==
    /\ Alive
    /\ \E t \in tasks :
        /\ t.l.kind = "heartbeatRecv"
        /\ t.pc = "run"
        /\ Lock(Replier(t.f))
        /\ tasks' = (tasks \ {t}) \cup {[t EXCEPT !.pc = "writing"]}
    /\ UNCHANGED <<plan, fatal, connVars, regVars, loopPc, frames, calls, panics, stored, dispatched, sequenceNumber,
                   hbVars, wire, idVars, csVars>>

\* heartbeatRecv: the write, then Unlock; the error is dropped
HeartbeatRecvWrite ==
    /\ Alive
    /\ \E t \in tasks, ok \in BOOLEAN :
        /\ t.l.kind = "heartbeatRecv"
        /\ t.pc = "writing"
        /\ Written(ok, Payload(OpcodeHeartbeatACK, NilSeq))
        /\ UnlockAfterWrite(ok)
        /\ tasks' = tasks \ {t}
    /\ UNCHANGED <<plan, fatal, connVars, regVars, loopPc, frames, calls, panics, stored, dispatched, sequenceNumber,
                   hbVars, idVars, csVars>>

\* Identify's ready listener, line 316: decode the payload into the call's
\* readyMessage and store the result in the call's err; the goroutine is then
\* at the channel send of line 317 with that result.
RunReadyListener ==
    /\ Alive
    /\ \E t \in tasks :
        /\ t.l.kind = "ready"
        /\ t.pc = "run"
        /\ LET k == t.l.n
               d == frames[t.f].d
               e == IF d.valid THEN "nil" ELSE "IdentifyDecodeFailure"
           IN  /\ readyMessage' = IF d.valid
                                  THEN [readyMessage EXCEPT
                                          ![k] = [User |-> d.user, SessionId |-> d.session_id]]
                                  ELSE readyMessage
               /\ idErr' = [idErr EXCEPT ![k] = e]
               /\ tasks' = (tasks \ {t}) \cup {[t EXCEPT !.pc = "send", !.v = e]}
    /\ UNCHANGED <<plan, fatal, connVars, regVars, loopPc, frames, calls, panics, stored, dispatched, sequenceNumber,
                   hbVars, sockVars, idCalls, idPc, idUser, idBranch, idGot, idRet,
                   sessionId, csVars>>


\* --------------------------------------------------------- heartbeat goroutine
MaxOf(S) ==
    IF S = {} THEN NilSeq
    ELSE LET x == CHOOSE y \in S : \A z \in S : z <= y IN x

\* the highest sequence number a dispatch listener has stored so far
Processed == MaxOf({frames[f].s : f \in stored})

\* line 62: heartbeatMessage.SequenceNumber = heartbeat.getSequenceNum()
HeartbeatReadSeq ==
    /\ Alive
    /\ hbPc = "start"
    /\ beats < plan.beats
    /\ hbMsgSeq' = sequenceNumber
    /\ hbReads' = Append(hbReads, [val |-> sequenceNumber, processed |-> Processed])
    /\ hbPc' = "lock"
    /\ UNCHANGED <<plan, fatal, connVars, regVars, loopVars, beats, lastHeartbeat, acks, sockVars, idVars,
                   csVars>>

\* a mutant: the frame written carries the sequence number of the moment of the write
HeartbeatFrameAtWrite == Payload(OpcodeHeartbeat, sequenceNumber)

\* lines 55-57 and 62: heartbeatMessage, the frame SendPayload is given
HeartbeatFrame == Payload(OpcodeHeartbeat, hbMsgSeq)

\* line 65: SendPayload takes the mutex
HeartbeatLock ==
    /\ Alive
    /\ hbPc = "lock"
    /\ Lock(Monitor)
    /\ hbPc' = "writing"
    /\ UNCHANGED <<plan, fatal, connVars, regVars, loopVars, hbMsgSeq, beats, lastHeartbeat, acks, hbReads, wire,
                   idVars, csVars>>

\* lines 65-71: the write and Unlock; a failed write is fatal
HeartbeatWrite ==
    /\ Alive
    /\ hbPc = "writing"
    /\ \E ok \in BOOLEAN :
        /\ Written(ok, HeartbeatFrame)
        /\ UnlockAfterWrite(ok)
        /\ IF ok
           THEN /\ hbPc' = "await"
                /\ beats' = beats + 1
                /\ lastHeartbeat' = Len(frames)
                /\ UNCHANGED fatal
           ELSE /\ hbPc' = "fatal"
                /\ fatal' = "HeartbeatSendFailure"
                /\ UNCHANGED <<beats, lastHeartbeat>>
    /\ UNCHANGED <<plan, connVars, regVars, loopVars, hbMsgSeq, acks, hbReads, idVars, csVars>>

\* lines 41 and 74: a heartbeatAckRecv goroutine hands its value to the select
HeartbeatAck ==
    /\ Alive
    /\ hbPc = "await"
    /\ \E t \in tasks :
        /\ t.l = HeartbeatAckRecv
        /\ tasks' = tasks \ {t}
        /\ acks' = Append(acks, t.f > lastHeartbeat)
    /\ hbPc' = "sleep"
    /\ UNCHANGED <<plan, fatal, connVars, regVars, loopPc, frames, calls, panics, stored, dispatched, sequenceNumber,
                   hbMsgSeq, beats, lastHeartbeat, hbReads, sockVars, idVars, csVars>>

\* line 77: the sleep ends
HeartbeatWake ==
    /\ Alive
    /\ hbPc = "sleep"
    /\ hbPc' = "start"
    /\ UNCHANGED <<plan, fatal, connVars, regVars, loopVars, hbMsgSeq, beats, lastHeartbeat, acks, hbReads, sockVars,
                   idVars, csVars>>

\* a mutant: after the timeout the goroutine goes round its loop again
HeartbeatTimeoutRetry ==
    /\ Alive
    /\ hbPc = "await"
    /\ hbPc' = "start"
    /\ UNCHANGED <<plan, fatal, connVars, regVars, loopVars, hbMsgSeq, beats, lastHeartbeat, acks, hbReads,
                   sockVars, idVars, csVars>>

\* line 78: time.After(interval) fires first
HeartbeatTimeout ==
    /\ Alive
    /\ hbPc = "await"
    /\ hbPc' = "closeLock"
    /\ UNCHANGED <<plan, fatal, connVars, regVars, loopVars, hbMsgSeq, beats, lastHeartbeat, acks, hbReads, sockVars,
                   idVars, csVars>>

\* line 79: SendControl takes the mutex
HeartbeatCloseLock ==
    /\ Alive
    /\ hbPc = "closeLock"
    /\ Lock(Monitor)
    /\ hbPc' = "closing"
    /\ UNCHANGED <<plan, fatal, connVars, regVars, loopVars, hbMsgSeq, beats, lastHeartbeat, acks, hbReads, wire,
                   idVars, csVars>>

\* lines 79-89: the close frame is written (an error is only logged), then
\* log.Fatal ends the process
HeartbeatClose ==
    /\ Alive
    /\ hbPc = "closing"
    /\ \E ok \in BOOLEAN :
        /\ Written(ok, Control(CloseMessage, CloseSessionTimeout))
        /\ UnlockAfterWrite(ok)
    /\ hbPc' = "timedOut"
    /\ fatal' = "AckTimeout"
    /\ UNCHANGED <<plan, connVars, regVars, loopVars, hbMsgSeq, beats, lastHeartbeat, acks, hbReads, idVars, csVars>>


\* -------------------------------------------------------------------- Identify
\* *g.sessionId: the SessionId field of the readyMessage it points into
Session == IF sessionId = NilSession THEN NilSession ELSE readyMessage[sessionId].SessionId

\* lines 292-318: build the request, make the channel, register the ready listener
IdentifyCall ==
    /\ Alive
    /\ connState = "connected"
    /\ idPc = "idle"
    /\ idCalls < plan.identifies
    /\ idCalls' = idCalls + 1
    /\ eventListeners' = [eventListeners EXCEPT
                            ![EventReady] = Append(@, ReadyListener(idCalls + 1))]
    /\ idPc' = "lock"
    /\ UNCHANGED <<plan, fatal, connVars, opcodeListeners, regs, loopVars, hbVars, sockVars,
                   idErr, readyMessage, idUser, idBranch, idGot, idRet, sessionId, csVars>>

\* line 320: SendPayload takes the mutex
IdentifyLock ==
    /\ Alive
    /\ idPc = "lock"
    /\ Lock(Identifier)
    /\ idPc' = "writing"
    /\ UNCHANGED <<plan, fatal, connVars, regVars, loopVars, hbVars, wire, idCalls, idErr,
                   readyMessage, idUser, idBranch, idGot, idRet, sessionId, csVars>>

\* line 320: the write, Unlock, and the assignment of the result to err
IdentifyWrite ==
    /\ Alive
    /\ idPc = "writing"
    /\ \E ok \in BOOLEAN :
        /\ Written(ok, Payload(OpcodeIdentify, NilSeq))
        /\ idErr' = [idErr EXCEPT ![idCalls] = IF ok THEN "nil" ELSE "SendFailure"]
        /\ UnlockAfterWrite(ok)
    /\ idPc' = "sent"
    /\ UNCHANGED <<plan, fatal, connVars, regVars, loopVars, hbVars, idCalls, readyMessage,
                   idUser, idBranch, idGot, idRet, sessionId, csVars>>

\* lines 325-327: a non-nil err returns the send failure, else the select is entered
IdentifySent ==
    /\ Alive
    /\ idPc = "sent"
    /\ IF idErr[idCalls] # "nil"
       THEN /\ idBranch' = [idBranch EXCEPT ![idCalls] = "sendFailure"]
            /\ idRet' = [idRet EXCEPT
                           ![idCalls] = [returned |-> TRUE, user |-> idUser[idCalls],
                                         err |-> "SendFailure", session |-> Session]]
            /\ idPc' = "idle"
       ELSE /\ idPc' = "select"
            /\ UNCHANGED <<idBranch, idRet>>
    /\ UNCHANGED <<plan, fatal, connVars, regVars, loopVars, hbVars, sockVars, idCalls, idErr,
                   readyMessage, idUser, idGot, sessionId, csVars>>

\* lines 317 and 330-336: a goroutine of this call's ready listener hands over
\* its decode result; with nil, sessionId is pointed at readyMessage.SessionId
\* and user is copied from readyMessage.User
IdentifyReady ==
    /\ Alive
    /\ idPc = "select"
    /\ \E t \in tasks :
        /\ t.l = ReadyListener(idCalls)
        /\ t.pc = "send"
        /\ tasks' = tasks \ {t}
        /\ idErr' = [idErr EXCEPT ![idCalls] = t.v]
        /\ idGot' = [idGot EXCEPT ![idCalls] = t.f]
        /\ IF t.v = "nil"
           THEN /\ sessionId' = idCalls
                /\ idUser' = [idUser EXCEPT ![idCalls] = readyMessage[idCalls].User]
           ELSE UNCHANGED <<sessionId, idUser>>
    /\ idBranch' = [idBranch EXCEPT ![idCalls] = "ready"]
    /\ idPc' = "ret"
    /\ UNCHANGED <<plan, fatal, connVars, regVars, loopPc, frames, calls, panics, stored, dispatched, sequenceNumber,
                   hbVars, sockVars, idCalls, readyMessage, idRet, csVars>>

\* lines 337-338: time.After(identifyTimeoutSeconds) fires first
IdentifyTimeout ==
    /\ Alive
    /\ idPc = "select"
    /\ idErr' = [idErr EXCEPT ![idCalls] = "IdentifyTimeout"]
    /\ idBranch' = [idBranch EXCEPT ![idCalls] = "timeout"]
    /\ idPc' = "ret"
    /\ UNCHANGED <<plan, fatal, connVars, regVars, loopVars, hbVars, sockVars, idCalls,
                   readyMessage, idUser, idGot, idRet, sessionId, csVars>>

\* line 341 (and 332): return the named results user and err as they are now
IdentifyReturn ==
    /\ Alive
    /\ idPc = "ret"
    /\ idRet' = [idRet EXCEPT
                   ![idCalls] = [returned |-> TRUE, user |-> idUser[idCalls],
                                 err |-> idErr[idCalls], session |-> Session]]
    /\ idPc' = "idle"
    /\ UNCHANGED <<plan, fatal, connVars, regVars, loopVars, hbVars, sockVars, idCalls, idErr,
                   readyMessage, idUser, idBranch, idGot, sessionId, csVars>>

\* ----------------------------------------------------------- the owner's sends
\* SendPayload called by the owner (a status update): Lock
CallerSendLock ==
    /\ Alive
    /\ connState = "connected"
    /\ csPc = "idle"
    /\ csCount < plan.sends
    /\ Lock(Caller)
    /\ csPc' = "writing"
    /\ UNCHANGED <<plan, fatal, connVars, regVars, loopVars, hbVars, wire, idVars, csCount>>

\* SendPayload called by the owner: the write and Unlock
CallerSendWrite ==
    /\ Alive
    /\ csPc = "writing"
    /\ \E ok \in BOOLEAN :
        /\ Written(ok, Payload(OpcodeStatusUpdate, NilSeq))
        /\ UnlockAfterWrite(ok)
    /\ csPc' = "idle"
    /\ csCount' = csCount + 1
    /\ UNCHANGED <<plan, fatal, connVars, regVars, loopVars, hbVars, idVars>>

\* ------------------------------------------------------------------------ Next
Next ==
    \/ RegisterOpcodeListener
    \/ RegisterEventListener
    \/ Connect
    \/ ReceiveLoop
    \/ RunDispatchStore
    \/ RunDispatch
    \/ HeartbeatRecvLock
    \/ HeartbeatRecvWrite
    \/ UserListenerPanic
    \/ RunReadyListener
    \/ HeartbeatReadSeq
    \/ HeartbeatLock
    \/ HeartbeatWrite
    \/ HeartbeatAck
    \/ HeartbeatWake
    \/ HeartbeatTimeout
    \/ HeartbeatCloseLock
    \/ HeartbeatClose
    \/ IdentifyCall
    \/ IdentifyLock
    \/ IdentifyWrite
    \/ IdentifySent
    \/ IdentifyReady
    \/ IdentifyTimeout
    \/ IdentifyReturn
    \/ CallerSendLock
    \/ CallerSendWrite

Spec == Init /\ [][Next]_vars

\* the same program with an owner that may also call Connect a second time
SpecReconnect == InitReconnect /\ [][Next]_vars


\* ====================================================================== claims

\* C1: when the ack select times out, the heartbeat goroutine has sent the
\* close frame with code 4009 and the connection alone is closed, with the
\* timeout reported to its owner: the process is still running.
C1_AckTimeoutLeavesProcessRunning ==
    hbPc = "timedOut" => Alive

\* C2: the sequence numbers the heartbeat goroutine reads never decrease, and
\* no read is below the sequence number of a dispatch frame already processed.
C2_SequenceReadsNeverStale ==
    /\ \A i, j \in DOMAIN hbReads : i < j => hbReads[i].val <= hbReads[j].val
    /\ \A i \in DOMAIN hbReads : hbReads[i].val >= hbReads[i].processed

\* C3: at most one goroutine is inside a socket write at any time, and it
\* holds connMutex.
C3_WritesSerialized ==
    /\ Cardinality(Writers) <= 1
    /\ \A w \in Writers : connMutex = w

\* C3 witness: the heartbeat goroutine is writing while Identify and a
\* heartbeat reply both wait for the mutex.
C3_Witness ==
    /\ Writers = {Monitor}
    /\ idPc = "lock"
    /\ \E t \in tasks : t.l = HeartbeatRecv /\ t.pc = "run"

\* C4: once an Identify call has returned, the ready listener it registered is
\* no longer in the event registry.
C4_ReadyListenerDeregistered ==
    \A k \in IdCalls :
        idRet[k].returned =>
            \A i \in DOMAIN eventListeners[EventReady] :
                eventListeners[EventReady][i] # ReadyListener(k)

\* C5: after a failed socket read the receive loop has stopped and the failure
\* is the connection's alone: the process is still running.
C5_ReadFailureLeavesProcessRunning ==
    loopPc = "failed" => Alive

\* C6: an Identify call whose request was sent returns, when it received a
\* decoded Ready payload, that payload's user with no error and leaves the
\* session id equal to the payload's session_id; when its timer fired instead,
\* it returns the IdentifyTimeout error.
C6_IdentifyOutcome ==
    \A k \in IdCalls :
        idRet[k].returned =>
            /\ (idBranch[k] = "ready" /\ frames[idGot[k]].d.valid) =>
                   /\ idRet[k].err = "nil"
                   /\ idRet[k].user = frames[idGot[k]].d.user
                   /\ idRet[k].session = frames[idGot[k]].d.session_id
            /\ idBranch[k] = "timeout" => idRet[k].err = "IdentifyTimeout"

\* `go listener(payload)` executions of the owner's listener n for frame f
UserCalls(n, f) == CopiesIn([l |-> UserListener(n), f |-> f], calls)

\* C7: an event listener registered before a dispatch frame arrived is started
\* exactly once for that frame when the frame's event name is the listener's,
\* and never for a frame with another event name (nor twice, nor before the
\* frame's dispatch listener has run).
C7_EventListenerOncePerFrame ==
    \A n \in DOMAIN regs : \A f \in DOMAIN frames :
        regs[n].ev # "" =>
            /\ UserCalls(n, f) <= 1
            /\ (frames[f].op # OpcodeDispatch \/ frames[f].t # regs[n].ev
                    \/ f \notin dispatched) => UserCalls(n, f) = 0
            /\ (frames[f].op = OpcodeDispatch /\ frames[f].t = regs[n].ev
                    /\ f \in dispatched /\ regs[n].at < f) => UserCalls(n, f) = 1

\* C7 witness: a READY frame has been dispatched with one listener registered
\* under READY and one under another name; the first was started, the second not.
C7_Witness ==
    \E n, m \in DOMAIN regs : \E f \in dispatched :
        /\ regs[n].ev = EventReady /\ regs[m].ev = EventGuildCreate
        /\ regs[n].at < f /\ regs[m].at < f
        /\ frames[f].t = EventReady
        /\ UserCalls(n, f) = 1 /\ UserCalls(m, f) = 0

\* C8: every opcode listener registered before a frame was read is started
\* exactly once for it when the frame carries the listener's opcode, and not
\* at all otherwise; so is the built-in heartbeatAckRecv.
C8_OpcodeListenerOncePerFrame ==
    \A f \in DOMAIN frames :
        /\ \A n \in DOMAIN regs :
            regs[n].ev = "" =>
                UserCalls(n, f) =
                    IF frames[f].op = regs[n].op /\ regs[n].at < f THEN 1 ELSE 0
        /\ CopiesIn([l |-> HeartbeatAckRecv, f |-> f], calls) =
               IF frames[f].op = OpcodeHeartbeatACK THEN 1 ELSE 0

\* C8 witness: two listeners were registered on the heartbeat-ack opcode, one
\* ack frame arrived, and each was started once for it.
C8_Witness ==
    \E n, m \in DOMAIN regs : \E f \in DOMAIN frames :
        /\ n # m
        /\ regs[n].op = OpcodeHeartbeatACK /\ regs[m].op = OpcodeHeartbeatACK
        /\ frames[f].op = OpcodeHeartbeatACK
        /\ UserCalls(n, f) = 1 /\ UserCalls(m, f) = 1

\* C9: when the first frame Connect reads does not carry the hello opcode,
\* Connect returns the protocol-violation error and starts nothing.
C9_NonHelloFirstFrameFails ==
    (hello # NoFrame /\ hello.op # OpcodeHello) =>
        /\ connErr = "HandshakeProtocolViolation"
        /\ connState = "failed"
        /\ hbPc = "off" /\ loopPc = "off"

\* C9 witness: Connect read a dispatch frame first and failed.
C9_Witness ==
    /\ hello # NoFrame /\ hello.op = OpcodeDispatch
    /\ connErr = "HandshakeProtocolViolation"

\* C10: when the hello frame's heartbeat_interval is zero or negative, Connect
\* returns the invalid-interval error.
C10_NonPositiveIntervalFails ==
    (hello # NoFrame /\ hello.op = OpcodeHello /\ hello.d.kind = "number"
        /\ LeqZero64(ParseInterval(hello.d))) =>
        /\ connErr = "InvalidLivenessInterval"
        /\ connState = "failed"

\* C11: when the hello frame's heartbeat_interval is a positive number, Connect
\* succeeds and the interval the heartbeat goroutine is given is positive.
C11_PositiveIntervalConnects ==
    (hello # NoFrame /\ hello.op = OpcodeHello /\ hello.d.kind = "number"
        /\ ~LeqZero64(ParseInterval(hello.d))) =>
        /\ connErr = "nil"
        /\ connState = "connected"
        /\ hbPc # "off"
        /\ ~LeqZero64(hbInterval)

C13_OneMonitorOneLoop ==
    connState = "connected" => (heartbeats <= 1 /\ loops <= 1)

\* the `go eventListener(payload)` executions so far: those of Identify's ready
\* listeners and of the owner's listeners registered under an event name
EventCalls ==
    {e \in BagToSet(calls) :
        \/ e.l.kind = "ready"
        \/ e.l.kind = "user" /\ regs[e.l.n].ev # ""}

\* C14: whenever an event listener has been started for a dispatch frame, the
\* sequence number of that frame had been stored before.
C14_StoreBeforeEventFanout ==
    \A e \in EventCalls : e.f \in stored

\* C14 witness: a listener of the owner registered under an event name was
\* started for a dispatch frame.
C14_Witness ==
    \E e \in EventCalls :
        /\ e.l.kind = "user"
        /\ frames[e.f].op = OpcodeDispatch
        /\ e.f \in stored

\* the built-in listener of frame f (the dispatch listener or heartbeatRecv) has
\* begun: its goroutine has executed its first step
Begun(f) == ~\E t \in tasks : t.f = f /\ t.pc = "run" /\ t.l.kind \in {"dispatch", "heartbeatRecv"}

\* C15: of two frames with the same opcode, the listener of that opcode begins
\* handling the one read first before it begins handling the one read later.
C15_ListenersBeginInArrivalOrder ==
    \A f1, f2 \in DOMAIN frames :
        (f1 < f2 /\ frames[f1].op = frames[f2].op
            /\ frames[f1].op \in {OpcodeDispatch, OpcodeHeartbeat}
            /\ Begun(f2)) => Begun(f1)

\* the positions in wire of the heartbeats and of the close frame
HeartbeatsOnWire == {i \in DOMAIN wire : wire[i].kind = "payload" /\ wire[i].op = OpcodeHeartbeat}
ClosesOnWire == {i \in DOMAIN wire : wire[i].kind = "control" /\ wire[i].op = CloseMessage}

\* C16: the heartbeat goroutine sends a heartbeat only when every heartbeat it
\* sent before has been acknowledged: while it waits in its select, and once the
\* select has timed out, exactly one heartbeat is unacknowledged; everywhere else
\* none is, one receive from the ack channel having followed each send.  No
\* heartbeat follows the close frame of a timeout.
C16_OneAckPerHeartbeat ==
    /\ Cardinality(HeartbeatsOnWire) = beats
    /\ hbPc \in {"off", "start", "lock", "writing", "sleep"} => Len(acks) = beats
    /\ hbPc \in {"await", "closeLock", "closing", "timedOut"} => Len(acks) = beats - 1
    /\ hbPc = "fatal" => Len(acks) = beats
    /\ \A c \in ClosesOnWire : \A h \in HeartbeatsOnWire : h < c

\* C16 witness: the second heartbeat was sent after one ack was received, and its
\* own select then timed out and the close frame was written.
C16_Witness ==
    /\ beats = 2
    /\ Len(acks) = 1
    /\ hbPc = "timedOut"
    /\ ClosesOnWire # {}

\* C17: after a listener call has failed, the process is running and the
\* receive loop with it, so the loop goes on reading frames and starting the
\* listeners of each.
C17_ListenerFailureIsolated ==
    panics # {} => (Alive /\ loopPc = "running")

\* C18: the session id changes only in the step in which an Identify call
\* receives a decoded Ready payload from its select, and once it is set it never
\* changes again; so an Identify call that fails leaves it as it was.
C18_SessionAssignedOnce ==
    [][/\ Session # NilSession => Session' = Session
       /\ Session' # Session =>
            (idPc = "select" /\ idPc' = "ret" /\ idErr'[idCalls] = "nil")]_vars

\* the heartbeats written to the socket, in order
HeartbeatsSent ==
    SelectSeq(wire, LAMBDA w : w.kind = "payload" /\ w.op = OpcodeHeartbeat)

\* C19: each heartbeat written carries the value g.sequenceNumber had when the
\* goroutine built the frame: nil when no dispatch listener had stored a
\* sequence number by then, otherwise the sequence number of a dispatch frame
\* stored by then.
C19_HeartbeatCarriesSequenceAtBuild ==
    /\ Len(HeartbeatsSent) <= Len(hbReads)
    /\ \A i \in DOMAIN HeartbeatsSent :
        /\ HeartbeatsSent[i].s = hbReads[i].val
        /\ hbReads[i].processed = NilSeq => HeartbeatsSent[i].s = NilSeq
        /\ HeartbeatsSent[i].s # NilSeq =>
              /\ HeartbeatsSent[i].s <= hbReads[i].processed
              /\ \E f \in stored : frames[f].s = HeartbeatsSent[i].s

\* C19 witness: the first heartbeat was written with no sequence number though
\* a sequence number has been stored since it was built, and the second with
\* the sequence number of a dispatch frame.
C19_Witness ==
    /\ Len(HeartbeatsSent) = 2
    /\ HeartbeatsSent[1].s = NilSeq
    /\ hbReads[2].processed # NilSeq
    /\ HeartbeatsSent[2].s # NilSeq

\* C20: whatever the heartbeat goroutine is doing (sending, waiting in its
\* select, sleeping, or timed out) and however many ack goroutines wait on its
\* channel, a receive loop that has had no read failure can take its next step:
\* read a frame and start the frame's listeners.
C20_MonitorNeverStopsLoop ==
    (/\ loopPc = "running"
     /\ panics = {}
     /\ hbPc \in {"start", "lock", "writing", "await", "sleep", "closeLock", "closing",
                  "timedOut"}) => ENABLED ReceiveLoop

\* C21: every value the select of the heartbeat goroutine receives from the ack
\* channel comes from an ack frame that was read after the heartbeat it
\* acknowledges was written.
C21_AckFollowsItsHeartbeat ==
    \A i \in DOMAIN acks : acks[i]

\* C22: no goroutine of a ready listener is left at its channel send (line 317)
\* for an Identify call that has returned: the select of that call was the
\* channel's only receiver, so such a goroutine would stay blocked for ever.
C22_ReadyListenerNeverStranded ==
    \A t \in tasks :
        (t.l.kind = "ready" /\ t.pc = "send") => ~idRet[t.l.n].returned

\* C23: connMutex is held only by a goroutine that is inside its socket write:
\* when SendPayload or SendControl has returned, with or without an error, the
\* mutex is free for the next sender; and while the process runs, a held mutex
\* is about to be released, its holder being able to finish its write.
C23_LockReleasedAfterEveryWrite ==
    /\ connMutex # Free => connMutex \in Writers
    /\ (Alive /\ connMutex # Free) =>
          ENABLED (\/ HeartbeatWrite
                   \/ HeartbeatClose
                   \/ HeartbeatRecvWrite
                   \/ IdentifyWrite
                   \/ CallerSendWrite)

\* C23 witness: the write of Identify failed, Identify returned the send
\* failure, and another sender has taken the mutex since.
C23_Witness ==
    /\ idRet[1].returned
    /\ idRet[1].err = "SendFailure"
    /\ connMutex \in {Monitor, Caller}

====
